---- MODULE Spec2Model ----
(***************************************************************************)
(* File-backed CRUD repository (JsonDataRepository / UserRepository) and   *)
(* the session-based FileAuthService of src/laba5_OOP.py; the Event class  *)
(* of src/laba4_OOP.py.                                                    *)
(*                                                                         *)
(* A record on disk is a TLA+ record.  A JSON record whose 'id' key is     *)
(* missing (or null: dict.get('id') gives None for both) is a record       *)
(* without the field "id".  Python's None in an Optional field is the      *)
(* empty sequence, a present value x is <<x>>.  What a call gives its     *)
(* caller is a string: "None", "True", "False", "list" for a returned      *)
(* value, the exception's class name for a raised exception.               *)
(***************************************************************************)
EXTENDS Integers, Sequences, FiniteSets, TLC

VARIABLES
    cfg,      \* the repository instance: its class, and whether sort_key is set
    phase,    \* "new" before JsonDataRepository.__init__ ran, "ready" after
    fstate,   \* the record file: "ok", "missing", "corrupt" (text that is not
              \* JSON), "undecodable" (bytes that are not UTF-8) or "nodir"
              \* (the directory it was in is gone)
    file,     \* the record file's content when fstate = "ok"
    op,       \* the operation that ran last
    item,     \* the caller's entity object as add or update left it
    ret,      \* what the caller got back from the last operation
    wrote,    \* whether the last operation opened the record file for writing
    wfailed,  \* whether _write_data caught a failed open in the last operation
    notice,   \* what the last operation printed to the console
    listed,   \* the list get_all returned, when it was the last operation
    session,  \* the session file: absent, or the pickled {'user_id': ...}
    auth,     \* "none" before FileAuthService.__init__ ran, "ready" after
    cur,      \* FileAuthService._current_user
    sop,      \* what the last operation did to the session file
    signedOut,\* history: sign_out ran and no sign_in has succeeded since
    owner,    \* history: the user whose sign_in wrote the session file
    raw,      \* _fix_duplicate_ids: its argument
    fixed,    \* _fix_duplicate_ids: its result
    writers,  \* two processes inside add: where each is, what it read, its item
    lastWriter,\* the process whose _write_data ran last, 0 if none did
    observers,\* Event._observers
    calls,    \* the handle calls the last operation made, in call order
    evop,     \* the Event operation that ran last, and how it ended
    person,   \* a Person: _name, _age and the observers of its two events
    invoked   \* the events a property assignment invoked, when it ran last

vars == <<cfg, phase, fstate, file, op, item, ret, wrote, wfailed, notice, listed,
          session, auth, cur, sop, signedOut, owner, raw, fixed,
          writers, lastWriter, observers, calls, evop, person, invoked>>

repoVars == <<cfg, phase, fstate, file, op, item, ret, wrote, wfailed, notice, listed>>
authVars == <<session, auth, cur, sop, signedOut, owner>>
repairVars == <<raw, fixed>>
writerVars == <<writers, lastWriter>>
eventVars == <<observers, calls, evop, person, invoked>>

---------------------------------------------------------------------------
(* Bounds of the model *)

\* records in a sequence handed to _fix_duplicate_ids
MaxLen == 3
\* records in the record file: of a file found on disk by the constructor, and
\* add is offered while the file holds fewer
MaxRecords == 2
\* observers of an Event: += is offered while it has fewer
MaxObservers == 3

None == <<>>
Some(x) == <<x>>

\* no process is inside add; no Event has been made
NoWriters == writers = <<>> /\ lastWriter = 0
NoEvent ==
    observers = <<>> /\ calls = <<>> /\ evop = "none" /\ person = <<>> /\ invoked = <<>>

Names == {"a", "b"}
Logins == {"x", "y"}
Passwords == {"p", "q"}

\* sort_key = lambda u: u.name; Python orders these strings "a" < "b"
NameRank(n) == IF n = "a" THEN 1 ELSE 2

\* ids a record found on disk may carry (besides none at all)
RawIds == {-3, -1, 0, 1, 2}
\* ids a caller gives an entity (0 is ConsoleService.input_user's placeholder)
IdHints == {0, 1, 2}

---------------------------------------------------------------------------
(* class User *)

User(id, name, login, password, email, address) ==
    [id |-> id, name |-> name, login |-> login, password |-> password,
     email |-> email, address |-> address]

HasId(r) == "id" \in DOMAIN r

\* item.get('id')
GetId(r) == IF HasId(r) THEN Some(r.id) ELSE None

NonId(r) == [k \in DOMAIN r \ {"id"} |-> r[k]]

\* data_class(**item)
FromDict(r) == User(r.id, r.name, r.login, r.password, r.email, r.address)

\* the attributes whose name does not start with '_'
ObjectToDict(obj) == [k \in DOMAIN obj |-> obj[k]]

SetMax(S) == CHOOSE m \in S : \A x \in S : x <= m

\* max(..., default=0)
MaxDefault0(S) == IF S = {} THEN 0 ELSE SetMax(S)

WithId(r, id) == [k \in DOMAIN r \cup {"id"} |-> IF k = "id" THEN id ELSE r[k]]

---------------------------------------------------------------------------
(* JsonDataRepository._fix_duplicate_ids *)

\* the ids that are not None (isinstance(id, (int, float)): any sign)
ValidIds(data) == {data[i].id : i \in {j \in DOMAIN data : HasId(data[j])}}

\* fault variant of the loop: the `elif item_id in seen_ids` branch is missing
RECURSIVE FixLoopNoSeen(_, _, _, _, _)
FixLoopNoSeen(data, i, seen_ids, next_id, fixed_data) ==
    IF i > Len(data) THEN fixed_data
    ELSE IF ~HasId(data[i]) \/ data[i].id <= 0
         THEN FixLoopNoSeen(data, i + 1, seen_ids, next_id + 1,
                            Append(fixed_data, WithId(data[i], next_id)))
         ELSE FixLoopNoSeen(data, i + 1, seen_ids, next_id, Append(fixed_data, data[i]))

\* fault variant of the loop: every record is given a new id
RECURSIVE FixLoopRenumber(_, _, _, _, _)
FixLoopRenumber(data, i, seen_ids, next_id, fixed_data) ==
    IF i > Len(data) THEN fixed_data
    ELSE FixLoopRenumber(data, i + 1, seen_ids, next_id + 1,
                         Append(fixed_data, WithId(data[i], next_id)))

\* the loop `for item in data` from record i on
RECURSIVE FixLoop(_, _, _, _, _)
FixLoop(data, i, seen_ids, next_id, fixed_data) ==
    IF i > Len(data) THEN fixed_data
    ELSE IF ~HasId(data[i]) \/ data[i].id <= 0
         THEN FixLoop(data, i + 1, seen_ids, next_id + 1,
                      Append(fixed_data, WithId(data[i], next_id)))
         ELSE IF data[i].id \in seen_ids
              THEN FixLoop(data, i + 1, seen_ids, next_id + 1,
                           Append(fixed_data, WithId(data[i], next_id)))
              ELSE FixLoop(data, i + 1, seen_ids \cup {data[i].id}, next_id,
                           Append(fixed_data, data[i]))

FixDuplicateIds(data) ==
    IF data = <<>> THEN data
    ELSE FixLoop(data, 1, {}, MaxDefault0(ValidIds(data)) + 1, <<>>)

---------------------------------------------------------------------------
(* JsonDataRepository: reading and writing the record file *)

\* _read_raw_data: the exception its `except (json.JSONDecodeError,
\* FileNotFoundError)` does not catch -- json.load reads the file as UTF-8
ReadRaises == fstate = "undecodable"

\* _read_raw_data / _read_data: FileNotFoundError and JSONDecodeError give []
\* (what is returned when nothing is raised)
ReadRawData == IF fstate = "ok" THEN file ELSE <<>>

\* _write_data: open(filename, 'w') raises FileNotFoundError when the directory
\* is gone, and `except FileNotFoundError` catches it
WriteFails == fstate = "nodir"

\* sorted(items, key=self.sort_key) is stable: u goes behind every item whose
\* key is not greater
RECURSIVE InsertByKey(_, _)
InsertByKey(sorted_items, u) ==
    IF sorted_items = <<>> THEN <<u>>
    ELSE IF NameRank(Head(sorted_items).name) <= NameRank(u.name)
         THEN <<Head(sorted_items)>> \o InsertByKey(Tail(sorted_items), u)
         ELSE <<u>> \o sorted_items

RECURSIVE SortedByKey(_)
SortedByKey(items) ==
    IF items = <<>> THEN <<>>
    ELSE InsertByKey(SortedByKey(SubSeq(items, 1, Len(items) - 1)), items[Len(items)])

\* the instance is a UserRepository (its __init__ passes sort_key = u.name)
IsUserRepository == cfg = "UserRepository"

\* self.sort_key is set: by UserRepository, or by the caller of
\* JsonDataRepository(filename, data_class, auto_sort, sort_key)
HasSortKey == cfg \in {"UserRepository", "JsonDataRepository(sort_key)"}

\* fault variant of _write_data: the records are written in the order given
WriteDataUnsorted(data) == data

\* _write_data: what open(filename, 'w') + json.dump leave in the file
WriteData(data) ==
    IF HasSortKey
    THEN LET items == [i \in DOMAIN data |-> FromDict(data[i])]
             sorted_items == SortedByKey(items)
         IN [i \in DOMAIN sorted_items |-> ObjectToDict(sorted_items[i])]
    ELSE data

LoginRank(l) == IF l = "x" THEN 1 ELSE 2
PasswordRank(p) == IF p = "p" THEN 1 ELSE 2

\* User.__lt__ of @dataclass(order=True): the tuples (name, login, password,
\* email, address) compared, id left out (compare=False); email and address
\* are None in every entity of the model and tie
UserLess(a, b) ==
    \/ NameRank(a.name) < NameRank(b.name)
    \/ /\ a.name = b.name
       /\ \/ LoginRank(a.login) < LoginRank(b.login)
          \/ a.login = b.login /\ PasswordRank(a.password) < PasswordRank(b.password)

\* sorted(users) is stable: u goes before the first item it is less than
RECURSIVE InsertUser(_, _)
InsertUser(sorted_users, u) ==
    IF sorted_users = <<>> THEN <<u>>
    ELSE IF UserLess(u, Head(sorted_users))
         THEN <<u>> \o sorted_users
         ELSE <<Head(sorted_users)>> \o InsertUser(Tail(sorted_users), u)

RECURSIVE SortedUsers(_)
SortedUsers(users) ==
    IF users = <<>> THEN <<>>
    ELSE InsertUser(SortedUsers(SubSeq(users, 1, Len(users) - 1)), users[Len(users)])

\* get_all: the entities of the records read, in file order;
\* UserRepository.get_all returns sorted(users) of them
GetAllItems(data) ==
    LET items == [i \in DOMAIN data |-> FromDict(data[i])]
    IN IF IsUserRepository THEN SortedUsers(items) ELSE items

\* index of the first record a loop `for i, record in enumerate(data)` matches
\* (matches: the indexes its condition holds at), 0 if none
FirstIndex(matches) ==
    IF matches = {} THEN 0 ELSE CHOOSE i \in matches : \A j \in matches : i <= j

\* record.get('id') == id
IndexesById(data, id) == {i \in DOMAIN data : GetId(data[i]) = Some(id)}

\* record.get('login') == login
IndexesByLogin(data, login) == {i \in DOMAIN data : data[i].login = login}

\* get_by_id on the records read
GetById(data, id) ==
    IF FirstIndex(IndexesById(data, id)) = 0 THEN None
    ELSE Some(FromDict(data[FirstIndex(IndexesById(data, id))]))

\* fault variant of get_by_login: the last record with the login is returned
GetByLoginLast(data, login) ==
    IF IndexesByLogin(data, login) = {} THEN None
    ELSE Some(FromDict(data[CHOOSE i \in IndexesByLogin(data, login) :
                                \A j \in IndexesByLogin(data, login) : j <= i]))

\* UserRepository.get_by_login on the records read
GetByLogin(data, login) ==
    IF FirstIndex(IndexesByLogin(data, login)) = 0 THEN None
    ELSE Some(FromDict(data[FirstIndex(IndexesByLogin(data, login))]))

\* {d.get('id') for d in data}; every record read has an id once the constructor ran
ExistingIds(data) == ValidIds(data)

\* fault variant of the id check: a colliding id is kept
AddedItemKeepId(data, u) == u

\* fault variant of the id check: next_id is the record count plus one
AddedItemCountId(data, u) ==
    IF u.id \in ExistingIds(data) THEN [u EXCEPT !.id = Len(data) + 1] ELSE u

\* add: the entity after the id check (item.id = next_id on a collision)
AddedItem(data, u) ==
    IF u.id \in ExistingIds(data)
    THEN [u EXCEPT !.id = MaxDefault0(ExistingIds(data)) + 1]
    ELSE u

\* fault variant: the dict is built before the id check changes item.id
AddedDataStaleId(data, u) == Append(data, ObjectToDict(u))

\* fault variant of add: an entity whose id collides replaces the stored record
AddedDataReplaces(data, u) ==
    IF u.id \in ExistingIds(data)
    THEN [i \in DOMAIN data |->
             IF GetId(data[i]) = Some(u.id) THEN ObjectToDict(u) ELSE data[i]]
    ELSE Append(data, ObjectToDict(u))

\* add: the records handed to _write_data
AddedData(data, u) == Append(data, ObjectToDict(AddedItem(data, u)))

\* update: the matching step by id; 0 when no record has item.id
UpdateIndexById(data, u) == FirstIndex(IndexesById(data, u.id))

\* UserRepository.update: the matching step by login, tried when none matched by id
UpdateIndexByLogin(data, u) ==
    IF IsUserRepository /\ UpdateIndexById(data, u) = 0
    THEN FirstIndex(IndexesByLogin(data, u.login))
    ELSE 0

\* fault variant: the caller's id is written over the stored id
UpdatedItemKeepsCallerId(data, u) == u

\* update: the entity after the call (item.id = old_id when matched by login)
UpdatedItem(data, u) ==
    IF UpdateIndexByLogin(data, u) # 0
    THEN [u EXCEPT !.id = data[UpdateIndexByLogin(data, u)].id]
    ELSE u

UpdateFound(data, u) == UpdateIndexById(data, u) # 0 \/ UpdateIndexByLogin(data, u) # 0

\* fault variant: the entity is written over the first record of the file
UpdatedDataFirstRecord(data, u) == [data EXCEPT ![1] = ObjectToDict(UpdatedItem(data, u))]

\* update: the records handed to _write_data when a record matched
UpdatedData(data, u) ==
    LET i == IF UpdateIndexById(data, u) # 0 THEN UpdateIndexById(data, u)
             ELSE UpdateIndexByLogin(data, u)
    IN [data EXCEPT ![i] = ObjectToDict(UpdatedItem(data, u))]

\* fault variant: the filter compares logins
DeletedDataByLogin(data, u) == SelectSeq(data, LAMBDA r : r.login # u.login)

\* delete: [record for record in data if record.get('id') != item.id]
DeletedData(data, u) == SelectSeq(data, LAMBDA r : GetId(r) # Some(u.id))

---------------------------------------------------------------------------
(* JsonDataRepository / UserRepository: the operations *)

SeqsUpTo(S, n) == UNION {[1..k -> S] : k \in 0..n}

\* entities a caller may hand to add, update and delete
Inputs == {User(i, n, l, "p", None, None) : i \in IdHints, n \in Names, l \in Logins}

\* records of a file found on disk by the first constructor
DiskPayload == {[name |-> "b", login |-> "x", password |-> "p", email |-> None, address |-> None],
                [name |-> "a", login |-> "y", password |-> "p", email |-> None, address |-> None]}
DiskRecords == DiskPayload \cup {WithId(r, i) : r \in DiskPayload, i \in {-1, 1, 2}}

\* _write_data: open(self.filename, 'w') + json.dump, or the caught failure
Written(data) ==
    IF WriteFails
    THEN /\ UNCHANGED <<fstate, file>>
         /\ wrote' = FALSE /\ wfailed' = TRUE
    ELSE /\ fstate' = "ok"
         /\ file' = WriteData(data)
         /\ wrote' = TRUE /\ wfailed' = FALSE

NotWritten ==
    /\ UNCHANGED <<fstate, file>>
    /\ wrote' = FALSE /\ wfailed' = FALSE

\* an exception leaves the operation before it wrote or printed anything
Raised(exc) ==
    /\ ret' = exc
    /\ notice' = ""
    /\ NotWritten

\* fault variant of __init__: the file is rewritten whether or not repair changed it
ConstructAlwaysWrites ==
    /\ IF fstate = "nodir"
       THEN Raised("FileNotFoundError") /\ UNCHANGED phase
       ELSE IF ReadRaises
       THEN Raised("UnicodeDecodeError") /\ UNCHANGED phase
       ELSE /\ Written(FixDuplicateIds(ReadRawData))
            /\ notice' = (IF FixDuplicateIds(ReadRawData) # ReadRawData THEN "file_fixed" ELSE "")
            /\ phase' = "ready" /\ ret' = "None"
    /\ op' = "construct" /\ listed' = <<>> /\ item' = None
    /\ UNCHANGED <<cfg, authVars, repairVars, writerVars, eventVars>>

\* JsonDataRepository.__init__: _ensure_file_exists, _validate_and_fix_data_on_load
Construct ==
    /\ IF fstate = "nodir"
       THEN Raised("FileNotFoundError") /\ UNCHANGED phase
       ELSE IF ReadRaises
       THEN Raised("UnicodeDecodeError") /\ UNCHANGED phase
       ELSE /\ LET exists == fstate # "missing"
                   data == ReadRawData
                   fixed_data == FixDuplicateIds(data)
               IN IF fixed_data # data
                  THEN Written(fixed_data) /\ notice' = "file_fixed"
                  ELSE /\ fstate' = (IF exists THEN fstate ELSE "ok")
                       /\ file' = (IF exists THEN file ELSE <<>>)
                       /\ wrote' = ~exists /\ wfailed' = FALSE
                       /\ notice' = ""
            /\ phase' = "ready" /\ ret' = "None"
    /\ op' = "construct" /\ listed' = <<>> /\ item' = None
    /\ UNCHANGED <<cfg, authVars, repairVars, writerVars, eventVars>>

\* JsonDataRepository.add
Add(u) ==
    /\ phase = "ready"
    /\ op' = "add" /\ listed' = <<>>
    /\ Len(ReadRawData) < MaxRecords
    /\ IF ReadRaises
       THEN item' = Some(u) /\ Raised("UnicodeDecodeError")
       ELSE /\ item' = Some(AddedItem(ReadRawData, u))
            /\ notice' = (IF u.id \in ExistingIds(ReadRawData) THEN "id_reassigned" ELSE "")
            /\ Written(AddedData(ReadRawData, u))
            /\ ret' = "None"
    /\ UNCHANGED <<cfg, phase, authVars, repairVars, writerVars, eventVars>>

\* JsonDataRepository.update, UserRepository.update
Update(u) ==
    /\ phase = "ready"
    /\ op' = "update" /\ listed' = <<>>
    /\ IF ReadRaises
       THEN item' = Some(u) /\ Raised("UnicodeDecodeError")
       ELSE /\ IF UpdateFound(ReadRawData, u)
               THEN /\ item' = Some(UpdatedItem(ReadRawData, u))
                    /\ notice' = (IF UpdateIndexById(ReadRawData, u) # 0
                                  THEN "updated" ELSE "updated_by_login")
                    /\ Written(UpdatedData(ReadRawData, u))
               ELSE /\ item' = Some(u)
                    /\ notice' = "not_found"
                    /\ NotWritten
            /\ ret' = "None"
    /\ UNCHANGED <<cfg, phase, authVars, repairVars, writerVars, eventVars>>

\* fault variant of delete: the length check and its raise are missing
DeleteNoCheck(u) ==
    /\ phase = "ready"
    /\ ret' = "None"
    /\ Written(DeletedData(ReadRawData, u))
    /\ op' = "delete" /\ listed' = <<>> /\ item' = None /\ notice' = ""
    /\ UNCHANGED <<cfg, phase, authVars, repairVars, writerVars, eventVars>>

\* JsonDataRepository.delete
Delete(u) ==
    /\ phase = "ready"
    /\ op' = "delete" /\ listed' = <<>> /\ item' = None
    /\ IF ReadRaises
       THEN Raised("UnicodeDecodeError")
       ELSE /\ IF Len(DeletedData(ReadRawData, u)) = Len(ReadRawData)
               THEN /\ ret' = "ValueError"
                    /\ NotWritten
               ELSE /\ ret' = "None"
                    /\ Written(DeletedData(ReadRawData, u))
            /\ notice' = ""
    /\ UNCHANGED <<cfg, phase, authVars, repairVars, writerVars, eventVars>>

\* fault variant of get_all: the records read are repaired and written back
GetAllRepairs ==
    /\ phase = "ready"
    /\ listed' = GetAllItems(FixDuplicateIds(ReadRawData))
    /\ ret' = "list" /\ notice' = ""
    /\ IF FixDuplicateIds(ReadRawData) # ReadRawData
       THEN Written(FixDuplicateIds(ReadRawData))
       ELSE NotWritten
    /\ op' = "get_all" /\ item' = None
    /\ UNCHANGED <<cfg, phase, authVars, repairVars, writerVars, eventVars>>

\* JsonDataRepository.get_all, UserRepository.get_all
GetAll ==
    /\ phase = "ready"
    /\ IF ReadRaises
       THEN listed' = <<>> /\ Raised("UnicodeDecodeError")
       ELSE /\ listed' = GetAllItems(ReadRawData)
            /\ ret' = "list" /\ notice' = ""
            /\ NotWritten
    /\ op' = "get_all" /\ item' = None
    /\ UNCHANGED <<cfg, phase, authVars, repairVars, writerVars, eventVars>>

Init ==
    /\ cfg \in {"JsonDataRepository", "JsonDataRepository(sort_key)", "UserRepository"}
    /\ phase = "new"
    /\ \/ fstate = "ok" /\ file \in SeqsUpTo(DiskRecords, MaxRecords)
       \/ fstate \in {"missing", "corrupt"} /\ file = <<>>
    /\ op = "init" /\ listed = <<>> /\ item = None /\ ret = "None" /\ wrote = FALSE /\ wfailed = FALSE /\ notice = ""
    /\ session = None /\ auth = "none" /\ cur = None /\ sop = "none" /\ signedOut = FALSE /\ owner = None
    /\ NoWriters /\ NoEvent
    /\ raw = <<>> /\ fixed = None

Next ==
    \/ Construct
    \/ \E u \in Inputs : Add(u)
    \/ \E u \in Inputs : Update(u)
    \/ \E u \in Inputs : Delete(u)
    \/ GetAll

Spec == Init /\ [][Next]_vars

---------------------------------------------------------------------------
(* FileAuthService *)

\* the pickled {'user_id': user_id}
SessionOf(user_id) == Some(user_id)

\* `if user_id:` -- None and 0 are false
Truthy(user_id) == user_id # None /\ user_id[1] # 0

\* _load_session: the _current_user it leaves, starting from None
LoadSession(sess, data) ==
    IF sess = None THEN None
    ELSE IF Truthy(sess[1]) THEN GetById(data, sess[1][1])
    ELSE None

\* sign_in: the user the credentials check lets in, None when it fails
SignInUser(data, login, password) ==
    IF GetByLogin(data, login) = None THEN None
    ELSE IF GetByLogin(data, login)[1].password # password THEN None
    ELSE GetByLogin(data, login)

\* fault variant of __init__: a session that resolves to no user is removed
NewAuthClearsStale ==
    /\ phase = "ready"
    /\ auth' = "ready"
    /\ cur' = LoadSession(session, ReadRawData)
    /\ session' = (IF LoadSession(session, ReadRawData) = None THEN None ELSE session)
    /\ notice' = ""
    /\ sop' = (IF session # None /\ LoadSession(session, ReadRawData) = None
               THEN "remove" ELSE "none")
    /\ op' = "auth_init" /\ listed' = <<>> /\ ret' = "None" /\ item' = None
    /\ wrote' = FALSE /\ wfailed' = FALSE
    /\ UNCHANGED <<cfg, phase, fstate, file, signedOut, owner, repairVars, writerVars, eventVars>>

\* FileAuthService.__init__
NewAuth ==
    /\ phase = "ready"
    /\ auth' = "ready"
    /\ cur' = LoadSession(session, ReadRawData)
    /\ notice' = (IF session # None /\ Truthy(session[1]) /\ ReadRaises
                  THEN "session_error" ELSE "")
    /\ sop' = "none"
    /\ op' = "auth_init" /\ listed' = <<>> /\ ret' = "None" /\ item' = None
    /\ wrote' = FALSE /\ wfailed' = FALSE
    /\ UNCHANGED <<cfg, phase, fstate, file, session, signedOut, owner, repairVars, writerVars, eventVars>>

\* fault variant of sign_in: a failed attempt signs the service out
SignInFailClears(login, password) ==
    /\ auth = "ready"
    /\ IF SignInUser(ReadRawData, login, password) = None
       THEN /\ ret' = "False"
            /\ notice' = "wrong_password"
            /\ cur' = None
            /\ session' = None
            /\ sop' = (IF session # None THEN "remove" ELSE "none")
            /\ UNCHANGED <<signedOut, owner>>
       ELSE /\ ret' = "True"
            /\ notice' = "welcome"
            /\ cur' = SignInUser(ReadRawData, login, password)
            /\ session' = SessionOf(Some(SignInUser(ReadRawData, login, password)[1].id))
            /\ sop' = "write"
            /\ signedOut' = FALSE
            /\ owner' = cur'
    /\ op' = "sign_in" /\ listed' = <<>> /\ item' = None /\ wrote' = FALSE /\ wfailed' = FALSE
    /\ UNCHANGED <<cfg, phase, fstate, file, auth, repairVars, writerVars, eventVars>>

\* fault variant of sign_in: _save_session runs before _current_user is set
SignInSavesBefore(login, password) ==
    /\ auth = "ready"
    /\ IF SignInUser(ReadRawData, login, password) = None
       THEN /\ ret' = "False"
            /\ notice' = "wrong_password"
            /\ sop' = "none"
            /\ UNCHANGED <<cur, session, signedOut, owner>>
       ELSE /\ ret' = "True"
            /\ notice' = "welcome"
            /\ cur' = SignInUser(ReadRawData, login, password)
            /\ session' = SessionOf(IF cur = None THEN None ELSE Some(cur[1].id))
            /\ sop' = "write"
            /\ signedOut' = FALSE
            /\ owner' = cur'
    /\ op' = "sign_in" /\ listed' = <<>> /\ item' = None /\ wrote' = FALSE /\ wfailed' = FALSE
    /\ UNCHANGED <<cfg, phase, fstate, file, auth, repairVars, writerVars, eventVars>>

\* fault variant of sign_in: _save_session is not called
SignInNoSave(login, password) ==
    /\ auth = "ready"
    /\ IF SignInUser(ReadRawData, login, password) = None
       THEN /\ ret' = "False"
            /\ notice' = "wrong_password"
            /\ UNCHANGED <<cur, signedOut, owner>>
       ELSE /\ ret' = "True"
            /\ notice' = "welcome"
            /\ cur' = SignInUser(ReadRawData, login, password)
            /\ signedOut' = FALSE
            /\ owner' = cur'
    /\ sop' = "none"
    /\ op' = "sign_in" /\ listed' = <<>> /\ item' = None /\ wrote' = FALSE /\ wfailed' = FALSE
    /\ UNCHANGED <<cfg, phase, fstate, file, auth, session, repairVars, writerVars, eventVars>>

\* FileAuthService.sign_in
SignIn(login, password) ==
    /\ auth = "ready"
    /\ IF ReadRaises
       THEN /\ ret' = "UnicodeDecodeError"
            /\ notice' = ""
            /\ sop' = "none"
            /\ UNCHANGED <<cur, session, signedOut, owner>>
       ELSE IF SignInUser(ReadRawData, login, password) = None
       THEN /\ ret' = "False"
            /\ notice' = (IF GetByLogin(ReadRawData, login) = None
                          THEN "login_not_found" ELSE "wrong_password")
            /\ sop' = "none"
            /\ UNCHANGED <<cur, session, signedOut, owner>>
       ELSE /\ ret' = "True"
            /\ notice' = "welcome"
            /\ cur' = SignInUser(ReadRawData, login, password)
            /\ session' = SessionOf(Some(SignInUser(ReadRawData, login, password)[1].id))
            /\ sop' = "write"
            /\ signedOut' = FALSE
            /\ owner' = cur'
    /\ op' = "sign_in" /\ listed' = <<>> /\ item' = None /\ wrote' = FALSE /\ wfailed' = FALSE
    /\ UNCHANGED <<cfg, phase, fstate, file, auth, repairVars, writerVars, eventVars>>

\* fault variant of sign_out: _clear_session runs only when a user was signed in
SignOutOnlyIfUser ==
    /\ auth = "ready"
    /\ cur' = None
    /\ session' = (IF cur # None THEN None ELSE session)
    /\ sop' = (IF cur # None /\ session # None THEN "remove" ELSE "none")
    /\ signedOut' = TRUE
    /\ owner' = (IF cur # None THEN None ELSE owner)
    /\ notice' = (IF cur # None THEN "goodbye" ELSE "")
    /\ op' = "sign_out" /\ listed' = <<>> /\ ret' = "None" /\ item' = None /\ wrote' = FALSE /\ wfailed' = FALSE
    /\ UNCHANGED <<cfg, phase, fstate, file, auth, repairVars, writerVars, eventVars>>

\* fault variant of sign_out: the session file is left in place
SignOutKeepsFile ==
    /\ auth = "ready"
    /\ cur' = None
    /\ sop' = "none"
    /\ signedOut' = TRUE
    /\ UNCHANGED owner
    /\ notice' = (IF cur # None THEN "goodbye" ELSE "")
    /\ op' = "sign_out" /\ listed' = <<>> /\ ret' = "None" /\ item' = None /\ wrote' = FALSE /\ wfailed' = FALSE
    /\ UNCHANGED <<cfg, phase, fstate, file, auth, session, repairVars, writerVars, eventVars>>

\* FileAuthService.sign_out, _clear_session
SignOut ==
    /\ auth = "ready"
    /\ cur' = None
    /\ session' = None
    /\ sop' = (IF session # None THEN "remove" ELSE "none")
    /\ signedOut' = TRUE
    /\ owner' = None
    /\ notice' = (IF cur # None THEN "goodbye" ELSE "")
    /\ op' = "sign_out" /\ listed' = <<>> /\ ret' = "None" /\ item' = None /\ wrote' = FALSE /\ wfailed' = FALSE
    /\ UNCHANGED <<cfg, phase, fstate, file, auth, repairVars, writerVars, eventVars>>

\* entities the console hands to the repository while a service is running
AuthInputs == {User(i, "a", l, "p", None, None) : i \in {0, 1}, l \in Logins}

\* record files and session files a program start may find
AuthDiskFiles ==
    {<<>>,
     <<User(1, "b", "x", "p", None, None)>>,
     <<User(1, "b", "x", "p", None, None), User(2, "a", "x", "q", None, None)>>}

AuthSessionFiles == {None, SessionOf(None), SessionOf(Some(1)), SessionOf(Some(2))}

InitAuth ==
    /\ cfg = "UserRepository"
    /\ phase = "new"
    /\ fstate = "ok" /\ file \in AuthDiskFiles
    /\ session \in AuthSessionFiles
    /\ op = "init" /\ listed = <<>> /\ item = None /\ ret = "None" /\ wrote = FALSE /\ wfailed = FALSE /\ notice = ""
    /\ auth = "none" /\ cur = None /\ sop = "none" /\ signedOut = FALSE /\ owner = None
    /\ NoWriters /\ NoEvent
    /\ raw = <<>> /\ fixed = None

NextAuth ==
    \/ phase = "new" /\ Construct
    \/ NewAuth
    \/ \E l \in Logins, pw \in Passwords : SignIn(l, pw)
    \/ SignOut
    \/ \E u \in AuthInputs : Add(u)
    \/ \E u \in AuthInputs : Update(u)
    \/ \E u \in AuthInputs : Delete(u)

SpecAuth == InitAuth /\ [][NextAuth]_vars

---------------------------------------------------------------------------
(* The repository and the service in a world that changes the files: reads, *)
(* and what another program or the operating system does to the record    *)
(* file between two calls                                                   *)

\* what a call that returns Optional[T] gives its caller
Returned(found) == IF found = None THEN "None" ELSE "entity"

\* JsonDataRepository.get_by_id
GetByIdCall(id) ==
    /\ phase = "ready"
    /\ IF ReadRaises
       THEN item' = None /\ Raised("UnicodeDecodeError")
       ELSE /\ item' = GetById(ReadRawData, id)
            /\ ret' = Returned(GetById(ReadRawData, id))
            /\ notice' = ""
            /\ NotWritten
    /\ op' = "get_by_id" /\ listed' = <<>>
    /\ UNCHANGED <<cfg, phase, authVars, repairVars, writerVars, eventVars>>

\* UserRepository.get_by_login
GetByLoginCall(login) ==
    /\ phase = "ready" /\ IsUserRepository
    /\ IF ReadRaises
       THEN item' = None /\ Raised("UnicodeDecodeError")
       ELSE /\ item' = GetByLogin(ReadRawData, login)
            /\ ret' = Returned(GetByLogin(ReadRawData, login))
            /\ notice' = ""
            /\ NotWritten
    /\ op' = "get_by_login" /\ listed' = <<>>
    /\ UNCHANGED <<cfg, phase, authVars, repairVars, writerVars, eventVars>>

\* FileAuthService.is_authorized
IsAuthorized ==
    /\ auth = "ready"
    /\ ret' = (IF cur # None THEN "True" ELSE "False")
    /\ op' = "is_authorized" /\ listed' = <<>> /\ item' = None /\ notice' = ""
    /\ sop' = "none"
    /\ NotWritten
    /\ UNCHANGED <<cfg, phase, session, auth, cur, signedOut, owner, repairVars, writerVars, eventVars>>

\* FileAuthService.current_user
CurrentUser ==
    /\ auth = "ready"
    /\ item' = cur
    /\ ret' = Returned(cur)
    /\ op' = "current_user" /\ listed' = <<>> /\ notice' = ""
    /\ sop' = "none"
    /\ NotWritten
    /\ UNCHANGED <<cfg, phase, session, auth, cur, signedOut, owner, repairVars, writerVars, eventVars>>

\* nothing of the last call is left to look at once the world has moved
Outside ==
    /\ op' = "outside" /\ ret' = "None" /\ item' = None /\ notice' = "" /\ listed' = <<>>
    /\ wrote' = FALSE /\ wfailed' = FALSE
    /\ UNCHANGED <<cfg, phase, authVars, repairVars, writerVars, eventVars>>

\* another program rewrites the record file (the repository holds no lock)
FileReplaced(data) ==
    /\ phase = "ready" /\ fstate # "nodir"
    /\ fstate' = "ok" /\ file' = data
    /\ Outside

\* the record file is deleted or overwritten with something that is not a JSON
\* text, or its directory is removed
FileLost(fs) ==
    /\ phase = "ready" /\ fstate # "nodir"
    /\ fstate' = fs /\ file' = <<>>
    /\ Outside

LostStates == {"missing", "corrupt", "undecodable", "nodir"}

\* record files another program may leave: sorted or not, ids unique or not
OutsideFiles ==
    {<<>>,
     <<User(1, "b", "x", "p", None, None)>>,
     <<User(1, "b", "x", "p", None, None), User(2, "a", "y", "p", None, None)>>,
     <<User(1, "b", "x", "p", None, None), User(1, "a", "y", "p", None, None)>>}

\* entities the caller hands over in this world
OutsideInputs == {User(i, "a", "x", "p", None, None) : i \in {1, 2}}

InitOutside ==
    /\ cfg \in {"JsonDataRepository", "JsonDataRepository(sort_key)", "UserRepository"}
    /\ phase = "new"
    /\ \/ fstate = "ok" /\ file \in OutsideFiles
       \/ fstate \in LostStates /\ file = <<>>
    /\ session \in {None, SessionOf(Some(1))}
    /\ op = "init" /\ listed = <<>> /\ item = None /\ ret = "None" /\ wrote = FALSE /\ wfailed = FALSE /\ notice = ""
    /\ auth = "none" /\ cur = None /\ sop = "none" /\ signedOut = FALSE /\ owner = None
    /\ NoWriters /\ NoEvent
    /\ raw = <<>> /\ fixed = None

NextOutside ==
    \/ phase = "new" /\ Construct
    \/ \E u \in OutsideInputs : Add(u)
    \/ \E u \in OutsideInputs : Update(u)
    \/ \E u \in OutsideInputs : Delete(u)
    \/ GetAll
    \/ \E id \in {1, 2} : GetByIdCall(id)
    \/ \E l \in Logins : GetByLoginCall(l)
    \/ IsUserRepository /\ NewAuth
    \/ IsAuthorized
    \/ CurrentUser
    \/ \E data \in OutsideFiles : FileReplaced(data)
    \/ \E fs \in LostStates : FileLost(fs)

SpecOutside == InitOutside /\ [][NextOutside]_vars

---------------------------------------------------------------------------
(* Two processes in JsonDataRepository.add on the same record file.  add    *)
(* reads the whole file, then rewrites the whole file; nothing holds the    *)
(* file between the two steps, so the steps of two processes interleave.    *)

Writers == {1, 2}
OtherWriter(w) == 3 - w

\* add, first step: data = self._read_data()
WriterRead(w) ==
    /\ writers[w].pc = "start"
    /\ writers' = [writers EXCEPT ![w].pc = "read", ![w].data = ReadRawData]
    /\ UNCHANGED <<repoVars, authVars, repairVars, lastWriter, eventVars>>

\* fault variant of the second step: the file is read again under the write
WriterWriteRereads(w) ==
    /\ writers[w].pc = "read"
    /\ writers' = [writers EXCEPT ![w].pc = "done",
                                  ![w].item = AddedItem(ReadRawData, writers[w].item)]
    /\ lastWriter' = w
    /\ item' = Some(AddedItem(ReadRawData, writers[w].item))
    /\ notice' = (IF writers[w].item.id \in ExistingIds(ReadRawData)
                  THEN "id_reassigned" ELSE "")
    /\ Written(AddedData(ReadRawData, writers[w].item))
    /\ op' = "add" /\ listed' = <<>> /\ ret' = "None"
    /\ UNCHANGED <<cfg, phase, authVars, repairVars, eventVars>>

\* add, second step: the id check on the records read, append, _write_data
WriterWrite(w) ==
    /\ writers[w].pc = "read"
    /\ writers' = [writers EXCEPT ![w].pc = "done",
                                  ![w].item = AddedItem(writers[w].data, writers[w].item)]
    /\ lastWriter' = w
    /\ item' = Some(AddedItem(writers[w].data, writers[w].item))
    /\ notice' = (IF writers[w].item.id \in ExistingIds(writers[w].data)
                  THEN "id_reassigned" ELSE "")
    /\ Written(AddedData(writers[w].data, writers[w].item))
    /\ op' = "add" /\ listed' = <<>> /\ ret' = "None"
    /\ UNCHANGED <<cfg, phase, authVars, repairVars, eventVars>>

\* the entity each process adds: the two differ in login
WriterInputs(w) ==
    {User(i, n, IF w = 1 THEN "x" ELSE "y", "p", None, None) : i \in IdHints, n \in Names}

\* the file the two processes find: a constructed repository's
WriterFiles == {<<>>, <<User(1, "b", "x", "q", None, None)>>}

InitWriters ==
    /\ cfg \in {"JsonDataRepository", "UserRepository"}
    /\ phase = "ready"
    /\ fstate = "ok" /\ file \in WriterFiles
    /\ op = "construct" /\ listed = <<>> /\ item = None /\ ret = "None"
    /\ wrote = FALSE /\ wfailed = FALSE /\ notice = ""
    /\ session = None /\ auth = "none" /\ cur = None /\ sop = "none" /\ signedOut = FALSE /\ owner = None
    /\ \E u1 \in WriterInputs(1), u2 \in WriterInputs(2) :
           writers = <<[pc |-> "start", data |-> <<>>, item |-> u1],
                       [pc |-> "start", data |-> <<>>, item |-> u2]>>
    /\ lastWriter = 0
    /\ NoEvent
    /\ raw = <<>> /\ fixed = None

NextWriters ==
    \/ \E w \in Writers : WriterRead(w)
    \/ \E w \in Writers : WriterWrite(w)

SpecWriters == InitWriters /\ [][NextWriters]_vars

---------------------------------------------------------------------------
(* class Event of src/laba4_OOP.py.  An observer is named by a string; the  *)
(* observer "err" is test_error_handling's ErrorHandler, whose handle       *)
(* raises ValueError.  The handle of "sub" does `event += h2` and the       *)
(* handle of "unsub" does `event -= h1` on the event that is calling them;  *)
(* the others return without touching the event.                            *)

Handlers == {"h1", "h2", "err", "sub", "unsub"}

\* observer.handle(sender, args) raises (an Exception)
Raises(h) == h = "err"

\* fault variant of list.remove: every occurrence goes
RemoveAll(list, h) == SelectSeq(list, LAMBDA x : x # h)

\* list.remove(observer): the first occurrence goes
RECURSIVE RemoveFirst(_, _)
RemoveFirst(list, h) ==
    IF list = <<>> THEN <<>>
    ELSE IF Head(list) = h THEN Tail(list)
    ELSE <<Head(list)>> \o RemoveFirst(Tail(list), h)

\* observer in self._observers
IsObserver(list, h) == \E i \in DOMAIN list : list[i] = h

\* self._observers after observer h's handle ran
Effect(h, live) ==
    IF h = "sub" THEN Append(live, "h2")
    ELSE IF h = "unsub" /\ IsObserver(live, "h1") THEN RemoveFirst(live, "h1")
    ELSE live

\* fault variant of the loop: no try/except, the first exception ends the loop
RECURSIVE DispatchUnguarded(_, _, _, _)
DispatchUnguarded(observers_copy, i, log, live) ==
    IF i > Len(observers_copy) THEN [log |-> log, live |-> live]
    ELSE IF Raises(observers_copy[i])
         THEN [log |-> Append(log, [observer |-> observers_copy[i], raised |-> TRUE]),
               live |-> live]
         ELSE DispatchUnguarded(observers_copy, i + 1,
                                Append(log, [observer |-> observers_copy[i], raised |-> FALSE]),
                                Effect(observers_copy[i], live))

\* fault variant of the loop: `for observer in self._observers`, no copy -- the
\* list iterator looks at the list as it is when it reaches index i
RECURSIVE DispatchNoCopy(_, _, _, _)
DispatchNoCopy(observers_copy, i, log, live) ==
    IF i > Len(live) THEN [log |-> log, live |-> live]
    ELSE DispatchNoCopy(observers_copy, i + 1,
                        Append(log, [observer |-> live[i], raised |-> Raises(live[i])]),
                        Effect(live[i], live))

\* invoke: the loop `for observer in observers_copy` from observer i on; log is
\* the calls of handle made so far, each with whether it raised (and was
\* caught), live is self._observers as the handlers called so far left it
RECURSIVE Dispatch(_, _, _, _)
Dispatch(observers_copy, i, log, live) ==
    IF i > Len(observers_copy) THEN [log |-> log, live |-> live]
    ELSE Dispatch(observers_copy, i + 1,
                  Append(log, [observer |-> observers_copy[i],
                               raised |-> Raises(observers_copy[i])]),
                  Effect(observers_copy[i], live))

\* Event.__init__
NewEvent ==
    /\ observers' = <<>> /\ calls' = <<>> /\ evop' = "new"
    /\ UNCHANGED <<repoVars, authVars, repairVars, writerVars, person, invoked>>

\* Event.__iadd__
Subscribe(h) ==
    /\ evop # "none"
    /\ Len(observers) < MaxObservers
    /\ observers' = Append(observers, h)
    /\ evop' = "iadd" /\ calls' = <<>>
    /\ UNCHANGED <<repoVars, authVars, repairVars, writerVars, person, invoked>>

\* Event.__isub__
Unsubscribe(h) ==
    /\ evop # "none"
    /\ observers' = (IF IsObserver(observers, h) THEN RemoveFirst(observers, h) ELSE observers)
    /\ evop' = (IF IsObserver(observers, h) THEN "isub" ELSE "isub_noop") /\ calls' = <<>>
    /\ UNCHANGED <<repoVars, authVars, repairVars, writerVars, person, invoked>>

\* Event.invoke
Invoke ==
    /\ evop # "none"
    /\ Len(Dispatch(observers, 1, <<>>, observers).live) <= MaxObservers
    /\ calls' = Dispatch(observers, 1, <<>>, observers).log
    /\ observers' = Dispatch(observers, 1, <<>>, observers).live
    /\ evop' = "invoke"
    /\ UNCHANGED <<repoVars, authVars, repairVars, writerVars, person, invoked>>

InitEvent ==
    /\ cfg = "JsonDataRepository" /\ phase = "new" /\ fstate = "ok" /\ file = <<>>
    /\ op = "init" /\ listed = <<>> /\ item = None /\ ret = "None"
    /\ wrote = FALSE /\ wfailed = FALSE /\ notice = ""
    /\ session = None /\ auth = "none" /\ cur = None /\ sop = "none" /\ signedOut = FALSE /\ owner = None
    /\ NoWriters
    /\ raw = <<>> /\ fixed = None
    /\ observers = <<>> /\ calls = <<>> /\ evop = "new" /\ person = <<>> /\ invoked = <<>>

NextEvent ==
    \/ NewEvent
    \/ \E h \in Handlers : Subscribe(h)
    \/ \E h \in Handlers : Unsubscribe(h)
    \/ Invoke

SpecEvent == InitEvent /\ [][NextEvent]_vars

---------------------------------------------------------------------------
(* The pure function on its own: every bounded record sequence is repaired *)

RawPayload == [name : Names, login : {"x"}, password : {"p"}, email : {None}, address : {None}]
RawRecords == RawPayload \cup {WithId(r, i) : r \in RawPayload, i \in RawIds}

Idle ==
    /\ cfg = "JsonDataRepository" /\ phase = "new" /\ fstate = "ok" /\ file = <<>>
    /\ op = "init" /\ listed = <<>> /\ item = None /\ ret = "None" /\ wrote = FALSE /\ wfailed = FALSE /\ notice = ""
    /\ session = None /\ auth = "none" /\ cur = None /\ sop = "none" /\ signedOut = FALSE /\ owner = None
    /\ NoWriters /\ NoEvent

InitRepair ==
    /\ Idle
    /\ raw \in SeqsUpTo(RawRecords, MaxLen)
    /\ fixed = None

Repair ==
    /\ fixed = None
    /\ fixed' = Some(FixDuplicateIds(raw))
    /\ UNCHANGED <<repoVars, authVars, raw, writerVars, eventVars>>

NextRepair == Repair

SpecRepair == InitRepair /\ [][NextRepair]_vars

Out == fixed[1]

\* the record at i has no id, a non-positive id, or the id of an earlier record
Conflicting(data, i) ==
    \/ ~HasId(data[i])
    \/ data[i].id <= 0
    \/ \E j \in 1..(i - 1) : HasId(data[j]) /\ data[j].id = data[i].id

\* C1: the output of repair holds no two records with the same id.
C1_RepairIdsUnique ==
    fixed # None =>
        \A i, j \in DOMAIN Out : i # j => GetId(Out[i]) # GetId(Out[j])

\* C1 witness: an input with a duplicated positive id and a record without id was repaired.
C1_Witness ==
    /\ fixed # None
    /\ \E i, j \in DOMAIN raw : i < j /\ HasId(raw[i]) /\ HasId(raw[j])
                                 /\ raw[i].id = raw[j].id /\ raw[i].id > 0
    /\ \E i \in DOMAIN raw : ~HasId(raw[i])

\* C2: every id in the output of repair is strictly positive, also when every
\* id of the input is negative or zero.
C2_RepairIdsPositive ==
    fixed # None => \A i \in DOMAIN Out : HasId(Out[i]) /\ Out[i].id > 0

\* C3: repair keeps the number and order of the records and their non-id fields;
\* a record keeps its id exactly when the id is positive and no earlier record
\* carries it, every other record gets a new id.
C3_RepairKeepsRecords ==
    fixed # None =>
        /\ Len(Out) = Len(raw)
        /\ \A i \in DOMAIN raw :
              /\ NonId(Out[i]) = NonId(raw[i])
              /\ Conflicting(raw, i) <=> GetId(Out[i]) # GetId(raw[i])

\* C3 witness: ids [1, 1] became [1, 2], the names in their input order.
C3_Witness ==
    /\ fixed # None
    /\ Len(raw) = 2 /\ HasId(raw[1]) /\ HasId(raw[2])
    /\ raw[1].id = 1 /\ raw[2].id = 1 /\ raw[1].name = "b" /\ raw[2].name = "a"
    /\ Out[1].id = 1 /\ Out[2].id = 2 /\ Out[1].name = "b" /\ Out[2].name = "a"

---------------------------------------------------------------------------
(* The repository's operations: claims checked under Spec *)

Disk == ReadRawData
Records(data) == {data[i] : i \in DOMAIN data}
HasRecordWithId(data, id) == \E i \in DOMAIN data : GetId(data[i]) = Some(id)

\* C4: once the repository is constructed, no two records on disk share an id,
\* whatever sequence of add, update (by id or by login) and delete ran.
C4_DiskIdsUnique ==
    phase = "ready" =>
        \A i, j \in DOMAIN Disk : i # j => GetId(Disk[i]) # GetId(Disk[j])

\* C4 witness: an update matched by login ran on a store of two records.
C4_Witness ==
    /\ phase = "ready" /\ op = "update" /\ notice = "updated_by_login"
    /\ Len(Disk) = 2

\* C5: once the repository is constructed every record on disk has a strictly
\* positive id, and add stores an entity under a strictly positive id.
C5_DiskIdsPositive ==
    phase = "ready" =>
        /\ \A i \in DOMAIN Disk : HasId(Disk[i]) /\ Disk[i].id > 0
        /\ op = "add" => item[1].id > 0

\* C6: after add(entity), get_by_id(entity.id) gives an entity with the fields
\* of the added one (entity.id being the id the entity carries after add).
C6_AddThenGetById ==
    op = "add" => GetById(Disk, item[1].id) = item

\* C6 witness: an add whose id collided and was reassigned.
C6_Witness ==
    /\ op = "add" /\ notice = "id_reassigned" /\ Len(Disk) = 2
    /\ GetById(Disk, item[1].id) = item

\* C7: an update that matches no record performs no write, leaves the store
\* as it was and tells its caller so: what it returns differs from the None a
\* matching update returns.
C7_UpdateNoMatchReportsFailure ==
    (op = "update" /\ notice = "not_found") => (~wrote /\ ret # "None")

\* C8: delete of an entity whose id no stored record has raises ValueError,
\* writes nothing and leaves the record file as it was.
C8_DeleteAbsentRaises ==
    [][\A u \in Inputs :
          (Delete(u) /\ ~HasRecordWithId(Disk, u.id)) =>
              /\ ret' = "ValueError"
              /\ ~wrote'
              /\ file' = file /\ fstate' = fstate]_vars

\* C8 witness: a delete raised ValueError on a store holding two records.
C8_Witness ==
    op = "delete" /\ ret = "ValueError" /\ ~wrote /\ Len(Disk) = 2

\* C9: delete of an entity whose id a stored record has leaves one record
\* less on disk: the record with that id is gone, every other record is there
\* as it was.
C9_DeleteRemovesOne ==
    [][\A u \in Inputs :
          (Delete(u) /\ HasRecordWithId(Disk, u.id)) =>
              /\ ret' = "None"
              /\ fstate' = "ok"
              /\ Len(file') = Len(Disk) - 1
              /\ ~HasRecordWithId(file', u.id)
              /\ Records(file') = {r \in Records(Disk) : GetId(r) # Some(u.id)}]_vars

\* C9 witness: a delete removed one of two records.
C9_Witness ==
    op = "delete" /\ ret = "None" /\ wrote /\ Len(Disk) = 1

---------------------------------------------------------------------------
(* FileAuthService: claims checked under SpecAuth *)

\* C10: when sign_in has just returned true, a FileAuthService constructed next
\* over the same repository and session file is authorized, its current_user
\* having the id and login of the user who signed in -- whichever user it is.
C10_SessionRoundTrip ==
    [][(op = "sign_in" /\ ret = "True" /\ NewAuth) =>
          /\ cur' # None
          /\ cur'[1].id = cur[1].id
          /\ cur'[1].login = cur[1].login]_vars

\* C11: after a sign_in that failed the service is Anonymous, whatever its
\* state was before the call.
C11_FailedSignInAnonymous ==
    (op = "sign_in" /\ ret = "False") => cur = None

\* C12: a sign_in that fails (login absent or password mismatch) returns False,
\* raises nothing and neither creates, rewrites nor deletes the session file.
C12_FailedSignInKeepsSession ==
    [][\A l \in Logins, pw \in Passwords :
          (SignIn(l, pw) /\ SignInUser(Disk, l, pw) = None) =>
              /\ ret' = "False"
              /\ session' = session
              /\ sop' = "none"]_vars

\* C12 witness: a sign_in failed on the password while a session file was there.
C12_Witness ==
    op = "sign_in" /\ ret = "False" /\ notice = "wrong_password"
    /\ session # None /\ sop = "none"

\* what a successful sign_in(l, ...) leaves: True returned, the service
\* authorized as a user with login l, that user's id in the session file
SignedInAs(l) ==
    /\ ret' = "True"
    /\ cur' # None
    /\ cur'[1].login = l
    /\ HasRecordWithId(Disk, cur'[1].id)
    /\ session' = SessionOf(Some(cur'[1].id))
    /\ sop' = "write"

\* C13 as stated: whenever some stored user has the login and the password,
\* sign_in returns True, authorizes a user with that login and writes that
\* user's id to the session file.
C13_SignInAnyStoredUser ==
    [][\A l \in Logins, pw \in Passwords :
          (SignIn(l, pw) /\ \E i \in DOMAIN Disk : Disk[i].login = l /\ Disk[i].password = pw)
              => SignedInAs(l)]_vars

\* C13 amended: whenever the first stored record (in on-disk order) with the
\* login has the password, sign_in returns True, authorizes that user and
\* writes that user's id to the session file, whatever the file held before.
C13_SignInFirstMatch ==
    [][\A l \in Logins, pw \in Passwords :
          (SignIn(l, pw) /\ GetByLogin(Disk, l) # None /\ GetByLogin(Disk, l)[1].password = pw)
              => SignedInAs(l) /\ cur' = GetByLogin(Disk, l)]_vars

\* C13 witness: a sign_in succeeded on a store of two records and its user's
\* id is what the session file holds.
C13_Witness ==
    /\ op = "sign_in" /\ ret = "True" /\ sop = "write"
    /\ Len(Disk) = 2 /\ cur # None /\ session = SessionOf(Some(cur[1].id))

\* C14: sign_out ends Anonymous with the session file absent and raises
\* nothing, whether a user was signed in or not and whether a session file was
\* there or not; a sign_out right after a sign_out changes neither.
C14_SignOutAnonymous ==
    [][SignOut =>
          /\ cur' = None /\ session' = None /\ ret' = "None"
          /\ op = "sign_out" => (cur' = cur /\ session' = session /\ sop' = "none")]_vars

\* C14 witness: sign_out removed a session file while nobody was signed in
\* (no goodbye was printed).
C14_Witness ==
    op = "sign_out" /\ sop = "remove" /\ notice = "" /\ cur = None /\ session = None

\* C15: once sign_out ran, a FileAuthService constructed over the same session
\* file starts Anonymous, as long as no sign_in has succeeded since.
C15_AnonymousAfterSignOut ==
    (signedOut /\ op = "auth_init") => cur = None

\* C15 witness: a service was constructed after a sign_out, over a store that
\* holds users.
C15_Witness ==
    signedOut /\ op = "auth_init" /\ cur = None /\ Len(Disk) = 2

\* C16: whenever the service is Authenticated(user), the store holds a record
\* with user.id, however sign_in / sign_out interleave with add / update /
\* delete.
C16_CurrentUserStored ==
    (auth = "ready" /\ cur # None) => HasRecordWithId(Disk, cur[1].id)

---------------------------------------------------------------------------
(* Repository claims checked under Spec, continued *)

\* C17: UserRepository.update of a user whose id no record has but whose login
\* a record has: that record keeps its stored id, the caller's user.id becomes
\* the stored id, the other fields are the user's, the file is written and
\* holds as many records as before.
C17_UpdateByLoginKeepsId ==
    [][\A u \in Inputs :
          (/\ IsUserRepository
           /\ ~HasRecordWithId(Disk, u.id) /\ IndexesByLogin(Disk, u.login) # {}
           /\ Update(u)) =>
              LET stored == Disk[FirstIndex(IndexesByLogin(Disk, u.login))]
              IN /\ item' = Some(WithId(NonId(u), stored.id))
                 /\ wrote'
                 /\ Len(file') = Len(Disk)
                 /\ WithId(NonId(u), stored.id) \in Records(file')
                 /\ ValidIds(file') = ValidIds(Disk)]_vars

\* C17 witness: an update matched by login ran on a store of two records, and
\* the caller's entity is now what one of them holds.
C17_Witness ==
    /\ op = "update" /\ notice = "updated_by_login" /\ wrote
    /\ Len(Disk) = 2
    /\ item[1] \in Records(Disk)

\* records are in non-decreasing order of sort_key = u.name
InKeyOrder(items) ==
    \A i, j \in DOMAIN items : i < j => NameRank(items[i].name) <= NameRank(items[j].name)

\* C18: get_all of a repository that has a sort key returns the entities in
\* non-decreasing key order, whatever the order of the records in the file.
C18_GetAllInKeyOrder ==
    (op = "get_all" /\ HasSortKey) => InKeyOrder(listed)

\* C19: update of an entity whose id a stored record has writes the file with
\* that record's fields replaced by the entity's; the record count, the set of
\* stored ids and every other record stay as they were (and without a sort key
\* every record stays where it was).
C19_UpdateByIdReplaces ==
    [][\A u \in Inputs :
          (Update(u) /\ HasRecordWithId(Disk, u.id)) =>
              LET i == FirstIndex(IndexesById(Disk, u.id))
              IN /\ item' = Some(u)
                 /\ wrote' /\ fstate' = "ok"
                 /\ Len(file') = Len(Disk)
                 /\ ValidIds(file') = ValidIds(Disk)
                 /\ ObjectToDict(u) \in Records(file')
                 /\ Records(file') \ {ObjectToDict(u)} = Records(Disk) \ {Disk[i]}
                 /\ ~HasSortKey => file' = [Disk EXCEPT ![i] = ObjectToDict(u)]]_vars

\* C19 witness: an update matched by id ran on a store of two records and the
\* entity is stored.
C19_Witness ==
    /\ op = "update" /\ notice = "updated" /\ wrote
    /\ Len(Disk) = 2 /\ item[1] \in Records(Disk)

\* C20: add of an entity whose id a stored record has stores it under
\* max(stored ids) + 1, an id no record had, and sets the caller's entity.id to
\* it; the file holds one record more and every record it held, the colliding
\* one included, as it was.
C20_AddCollidingId ==
    [][\A u \in Inputs :
          (Add(u) /\ HasRecordWithId(Disk, u.id)) =>
              LET next_id == SetMax(ValidIds(Disk)) + 1
                  stored == WithId(NonId(u), next_id)
              IN /\ next_id \notin ValidIds(Disk)
                 /\ item' = Some(stored)
                 /\ wrote' /\ fstate' = "ok"
                 /\ Len(file') = Len(Disk) + 1
                 /\ Records(file') = Records(Disk) \cup {stored}
                 /\ stored \notin Records(Disk)
                 /\ ~HasSortKey => file' = Append(Disk, stored)]_vars

\* C20 witness: an add was given the id of the one stored record and the store
\* now holds both, the new one under another id.
C20_Witness ==
    /\ op = "add" /\ notice = "id_reassigned" /\ wrote
    /\ Len(Disk) = 2 /\ item[1] \in Records(Disk)
    /\ \E r \in Records(Disk) : r.id # item[1].id

---------------------------------------------------------------------------
(* FileAuthService: construction *)

\* the id a session file holds, None when the file is absent or holds no id
SessionUserId == IF session = None THEN None ELSE session[1]

\* C21: a FileAuthService just constructed is Authenticated(u) exactly when the
\* session file exists, holds a user id and get_by_id of that id returns u;
\* otherwise it is Anonymous; the constructor raises nothing.
C21_ConstructResolvesSession ==
    op = "auth_init" =>
        /\ ret = "None"
        /\ cur = (IF SessionUserId = None THEN None ELSE GetById(Disk, SessionUserId[1]))

\* C22: constructing a FileAuthService leaves the session file as it is, and
\* the session file changes only in a sign_out or in a sign_in that succeeds.
C22_ConstructKeepsSession ==
    [][/\ NewAuth => session' = session
       /\ session' # session => (op' = "sign_out" \/ (op' = "sign_in" /\ ret' = "True"))]_vars

\* C22 witness: a service was constructed over a session file whose id no
\* stored record has; it is Anonymous and the file is still there.
C22_Witness ==
    /\ op = "auth_init" /\ cur = None /\ sop = "none"
    /\ SessionUserId # None /\ SessionUserId[1] # 0
    /\ ~HasRecordWithId(Disk, SessionUserId[1])

---------------------------------------------------------------------------
(* Reads, writes and the record file *)

\* the entities of a list have pairwise distinct ids
DistinctIds(items) == \A i, j \in DOMAIN items : i # j => items[i].id # items[j].id

\* C23: get_all repairs the records it loaded when repair would change them,
\* so the entities it returns have pairwise distinct ids -- also when another
\* program wrote duplicate ids to the file after the repository was made.
C23_GetAllDistinctIds ==
    (op = "get_all" /\ ret = "list") => DistinctIds(listed)

\* C24: get_all, get_by_id, get_by_login, is_authorized and current_user leave
\* the record file and the session file as they are, in every state.
C24_ReadsKeepFiles ==
    [][(\/ GetAll
        \/ \E id \in {1, 2} : GetByIdCall(id)
        \/ \E l \in Logins : GetByLoginCall(l)
        \/ IsAuthorized
        \/ CurrentUser)
          => /\ fstate' = fstate /\ file' = file /\ ~wrote'
             /\ session' = session /\ sop' = "none"]_vars

\* C24 witness: get_all returned the entities of a file in which two records
\* have the same id, and the file still holds them.
C24_Witness ==
    /\ op = "get_all" /\ ret = "list" /\ Len(listed) = 2
    /\ Len(Disk) = 2 /\ Disk[1].id = Disk[2].id

\* C25: in a repository that has a sort key, right after an operation that
\* wrote the record file (add, update, delete, the constructor's repair) the
\* records on disk are in non-decreasing order of the key.
C25_WrittenInKeyOrder ==
    (HasSortKey /\ wrote /\ op \in {"construct", "add", "update", "delete"}) => InKeyOrder(Disk)

\* C25 witness: the constructor of a repository with a sort key repaired a
\* file and left its two records in key order.
C25_Witness ==
    /\ HasSortKey /\ wrote /\ op = "construct" /\ notice = "file_fixed"
    /\ Len(Disk) = 2 /\ Disk[1].name = "a" /\ Disk[2].name = "b"

\* C26: when the write of the record file fails inside add, update or delete,
\* the caller gets an exception, not a normal return.
C26_WriteFailureSignalled ==
    (op \in {"add", "update", "delete"} /\ wfailed) => ret # "None"

\* C27: a read of a record file that is missing or holds no parsable JSON
\* raises nothing: get_all returns no entities, get_by_id and get_by_login
\* return None.
C27_UnreadableFileReadsEmpty ==
    (op \in {"get_all", "get_by_id", "get_by_login"}
     /\ fstate \in {"missing", "corrupt", "undecodable"})
        => /\ ret = (IF op = "get_all" THEN "list" ELSE "None")
           /\ listed = <<>> /\ item = None

\* C28: when add, an update that matched or a delete that matched has
\* returned, a read of the file finds the records the operation left: the
\* added or updated entity is there, the deleted one is not.
C28_MutationPersisted ==
    [][\A u \in OutsideInputs :
          /\ (Add(u) /\ ret' = "None") =>
                 (item'[1] \in Records(Disk') /\ Len(Disk') = Len(Disk) + 1)
          /\ (Update(u) /\ ret' = "None" /\ notice' # "not_found") =>
                 (item'[1] \in Records(Disk') /\ Len(Disk') = Len(Disk))
          /\ (Delete(u) /\ ret' = "None") =>
                 (~HasRecordWithId(Disk', u.id) /\ Len(Disk') < Len(Disk))]_vars

---------------------------------------------------------------------------
(* Two writers *)

BothReturned == \A w \in Writers : writers[w].pc = "done"

\* the entity process w added is a record of the file
OnDisk(w) == ObjectToDict(writers[w].item) \in Records(Disk)

\* C29: two processes in add on one file can lose an update.  When both adds
\* have returned, the record of the process that wrote last is on disk, and the
\* other's record is on disk exactly when the last writer had read the file
\* after the other wrote it.
C29_LastWriterWins ==
    BothReturned =>
        /\ OnDisk(lastWriter)
        /\ OnDisk(OtherWriter(lastWriter)) <=>
               ObjectToDict(writers[OtherWriter(lastWriter)].item)
                   \in Records(writers[lastWriter].data)

\* C29 witness: both adds have returned and the file holds the last writer's
\* record but not the other's.
C29_Witness ==
    /\ BothReturned
    /\ OnDisk(lastWriter) /\ ~OnDisk(OtherWriter(lastWriter))
    /\ Len(Disk) = 1

---------------------------------------------------------------------------
(* Event *)

\* the observers whose handle was called, in call order
Called(log) == [i \in DOMAIN log |-> log[i].observer]

\* C30: invoke calls handle on every subscribed observer, in subscription
\* order; when the handle of one raises, the exception is caught, the
\* observers after it are called all the same, and invoke returns.
C30_InvokeCallsEveryObserver ==
    [][Invoke =>
          /\ Called(calls') = observers
          /\ \A i \in DOMAIN calls' : calls'[i].raised = Raises(observers[i])
          /\ evop' = "invoke"]_vars

\* C30 witness: an invoke called three observers, the first of which raised.
C30_Witness ==
    /\ evop = "invoke" /\ Len(calls) = 3
    /\ calls[1].raised /\ ~calls[2].raised /\ ~calls[3].raised

\* how many subscriptions of h a list holds
Count(list, h) == Cardinality({i \in DOMAIN list : list[i] = h})

\* the subscriptions of the observers other than h, in order
Others(list, h) == SelectSeq(list, LAMBDA x : x # h)

\* the observers the next invoke calls
NextCalled(list) == Called(Dispatch(list, 1, <<>>, list).log)

\* C31 as stated: `event -= h` with h subscribed removes a subscription of h,
\* and from then on h is not called while the other observers are; with h not
\* subscribed it changes nothing and raises nothing.
C31_UnsubscribedNeverCalled ==
    [][\A h \in Handlers :
          Unsubscribe(h) =>
              IF IsObserver(observers, h)
              THEN /\ ~IsObserver(NextCalled(observers'), h)
                   /\ Others(NextCalled(observers'), h) = Others(observers, h)
              ELSE observers' = observers /\ evop' = "isub_noop"]_vars

\* C31 amended: `event -= h` with h subscribed removes the first subscription
\* of h and no other; the next invoke calls the observers left, so h is not
\* called when it was subscribed once, and is called once less when it was
\* subscribed more than once.  With h not subscribed nothing changes.
C31_UnsubscribeRemovesOne ==
    [][\A h \in Handlers :
          Unsubscribe(h) =>
              IF IsObserver(observers, h)
              THEN /\ Count(observers', h) = Count(observers, h) - 1
                   /\ \E k \in DOMAIN observers :
                         /\ observers[k] = h
                         /\ \A j \in 1..(k - 1) : observers[j] # h
                         /\ observers' = SubSeq(observers, 1, k - 1)
                                           \o SubSeq(observers, k + 1, Len(observers))
                   /\ NextCalled(observers') = observers'
                   /\ Count(observers, h) = 1 => ~IsObserver(NextCalled(observers'), h)
                   /\ evop' = "isub"
              ELSE observers' = observers /\ evop' = "isub_noop"]_vars

\* C31 witness: a subscription was removed and two observers are left, twice
\* the same one.
C31_Witness ==
    /\ evop = "isub"
    /\ Len(observers) = 2 /\ observers[1] = observers[2]

\* C40: invoke calls the observers of the list as it was when invoke
\* started, whatever the handlers called do to the list meanwhile; what they
\* subscribed and unsubscribed is in the list when invoke returns, for the
\* next invoke: "sub" has added h2 once per call, "unsub" has removed one h1
\* per call as long as there was one.
C40_InvokeUsesSnapshot ==
    [][Invoke =>
          /\ Called(calls') = observers
          /\ Count(observers', "h2") = Count(observers, "h2") + Count(observers, "sub")
          /\ Count(observers', "h1") =
                 (IF Count(observers, "h1") > Count(observers, "unsub")
                  THEN Count(observers, "h1") - Count(observers, "unsub") ELSE 0)
          /\ \A h \in {"err", "sub", "unsub"} : Count(observers', h) = Count(observers, h)
          /\ NextCalled(observers') = observers']_vars

\* C40 witness: an invoke called unsub, sub and h1 in this order -- h1 after
\* unsub had unsubscribed it, h2 not at all -- and left unsub, sub and h2
\* subscribed.
C40_Witness ==
    /\ evop = "invoke"
    /\ Called(calls) = <<"unsub", "sub", "h1">>
    /\ observers = <<"unsub", "sub", "h2">>

---------------------------------------------------------------------------
(* Person: property setters guarded by the property_changing event          *)

\* observers of one event of a Person: += is offered while it has fewer
MaxPersonObservers == 2

\* IntValidatorHandler("age", 0, 150), StringValidatorHandler("name", 1, 32),
\* a handler whose handle raises, and ConsoleLoggerHandler
ChangingHandlers == {"age_validator", "name_validator", "err"}
ChangedHandlers == {"logger"}

AgeValues == {-5, 30, 200}
NameValues == {"", " ", "Petr"}

\* str.strip on the names above
Strip(value) == IF value = " " THEN "" ELSE value

\* IntValidatorHandler.handle, StringValidatorHandler.handle: whether the
\* handler sets args.can_change = False
Vetoes(h, prop, value) ==
    IF h = "age_validator" /\ prop = "age" THEN value < 0 \/ value > 150
    ELSE IF h = "name_validator" /\ prop = "name"
    THEN Len(Strip(value)) < 1 \/ Len(Strip(value)) > 32
    ELSE FALSE

\* fault variant: the setter does not look at can_change
CanChangeAlways(list, prop, value) == TRUE

\* changing_args.can_change once property_changing.invoke has returned
CanChange(list, prop, value) ==
    \A i \in DOMAIN list : ~Vetoes(list[i], prop, value)

\* person.property_changing += h, person.property_changed += h
PersonSubscribe(event, h) ==
    /\ Len(person[event]) < MaxPersonObservers
    /\ person' = [person EXCEPT ![event] = Append(@, h)]
    /\ evop' = "person_iadd" /\ calls' = <<>> /\ invoked' = <<>>
    /\ UNCHANGED <<repoVars, authVars, repairVars, writerVars, observers>>

\* person.property_changing -= h, person.property_changed -= h
PersonUnsubscribe(event, h) ==
    /\ person' = [person EXCEPT ![event] =
                      IF IsObserver(@, h) THEN RemoveFirst(@, h) ELSE @]
    /\ evop' = "person_isub" /\ calls' = <<>> /\ invoked' = <<>>
    /\ UNCHANGED <<repoVars, authVars, repairVars, writerVars, observers>>

\* the setters of Person.name and Person.age
Assign(prop, value) ==
    /\ calls' = Dispatch(person.property_changing, 1, <<>>, person.property_changing).log
    /\ IF CanChange(person.property_changing, prop, value)
       THEN /\ person' = [person EXCEPT ![prop] = value]
            /\ invoked' = <<"property_changing", "property_changed">>
       ELSE /\ UNCHANGED person
            /\ invoked' = <<"property_changing">>
    /\ evop' = "assign"
    /\ UNCHANGED <<repoVars, authVars, repairVars, writerVars, observers>>

\* Person("Ivan", 25, ...) with no observer on either event
InitPerson ==
    /\ cfg = "UserRepository" /\ phase = "new" /\ fstate = "ok" /\ file = <<>>
    /\ op = "init" /\ listed = <<>> /\ item = None /\ ret = "None" /\ wrote = FALSE /\ wfailed = FALSE /\ notice = ""
    /\ session = None /\ auth = "none" /\ cur = None /\ sop = "none" /\ signedOut = FALSE /\ owner = None
    /\ raw = <<>> /\ fixed = None
    /\ NoWriters
    /\ observers = <<>> /\ calls = <<>> /\ evop = "person_new" /\ invoked = <<>>
    /\ person = [name |-> "Ivan", age |-> 25,
                 property_changing |-> <<>>, property_changed |-> <<>>]

NextPerson ==
    \/ \E h \in ChangingHandlers : PersonSubscribe("property_changing", h)
    \/ \E h \in ChangedHandlers : PersonSubscribe("property_changed", h)
    \/ \E h \in ChangingHandlers : PersonUnsubscribe("property_changing", h)
    \/ \E h \in ChangedHandlers : PersonUnsubscribe("property_changed", h)
    \/ \E value \in AgeValues : Assign("age", value)
    \/ \E value \in NameValues : Assign("name", value)

SpecPerson == InitPerson /\ [][NextPerson]_vars

\* whether some observer of property_changing clears can_change
Vetoed(prop, value) ==
    \E i \in DOMAIN person.property_changing :
        Vetoes(person.property_changing[i], prop, value)

\* the behaviour the setters of name and age share, for one assignment
SetterGuarded(prop, value) ==
    Assign(prop, value) =>
        /\ Called(calls') = person.property_changing
        /\ invoked'[1] = "property_changing"
        /\ IF Vetoed(prop, value)
           THEN /\ person' = person
                /\ invoked' = <<"property_changing">>
           ELSE /\ person'[prop] = value
                /\ invoked' = <<"property_changing", "property_changed">>

\* C32: assigning a property first dispatches property_changing to all its
\* observers; the value is stored and property_changed fires exactly once if
\* and only if no observer cleared can_change; after a veto the stored value is
\* unchanged and property_changed does not fire
C32_SetterGuardedByChanging ==
    [][/\ \A value \in AgeValues : SetterGuarded("age", value)
       /\ \A value \in NameValues : SetterGuarded("name", value)]_vars

\* a vetoed assignment of age after an accepted one, with two observers called
C32_Witness ==
    /\ evop = "assign" /\ invoked = <<"property_changing">>
    /\ person.age = 30 /\ Len(calls) = 2
    /\ IsObserver(person.property_changing, "age_validator")

\* a record sequence with a missing, a non-positive or a repeated id
Defective(data) ==
    \/ \E i \in DOMAIN data : ~HasId(data[i]) \/ data[i].id <= 0
    \/ \E i, j \in DOMAIN data : i # j /\ data[i].id = data[j].id

\* C33: constructing a repository over a file whose records have duplicate,
\* missing or non-positive ids rewrites the file with the repaired records
\* before any other operation runs, and the ids on disk are then pairwise
\* distinct; when repair changes nothing the file is not rewritten.
C33_ConstructRewritesRepaired ==
    [][/\ phase = "new" => Construct
       /\ Construct =>
             IF Defective(Disk)
             THEN /\ wrote' /\ notice' = "file_fixed" /\ phase' = "ready"
                  /\ Records(Disk') = Records(FixDuplicateIds(Disk))
                  /\ Len(Disk') = Len(Disk)
                  /\ \A i \in DOMAIN Disk' : HasId(Disk'[i])
                  /\ DistinctIds(Disk')
             ELSE fstate = "ok" => (~wrote' /\ file' = file /\ fstate' = fstate)]_vars

\* a construction that repaired a file of two records
C33_Witness ==
    /\ op = "construct" /\ wrote /\ notice = "file_fixed" /\ Len(Disk) = 2
    /\ DistinctIds(Disk)

\* C34: the ids repair hands out are consecutive integers, in scan order,
\* starting at max(positive ids present) + 1, or at 1 when no positive id is
\* present.
C34_RepairIdsConsecutive ==
    fixed # None =>
        LET nextId == MaxDefault0({id \in ValidIds(raw) : id > 0}) + 1
        IN \A i \in DOMAIN raw :
               Conflicting(raw, i) =>
                   Out[i].id = nextId + Cardinality({j \in 1..(i - 1) : Conflicting(raw, j)})

\* C38: repair is idempotent -- applied to its own output it returns an equal
\* record sequence, for every input.
C38_RepairIdempotent ==
    fixed # None => FixDuplicateIds(Out) = Out

---------------------------------------------------------------------------
(* Users come and go while sessions persist: sign_in, sign_out, add, delete, *)
(* look-ups by login and program restarts                                    *)

NextSession ==
    \/ phase = "new" /\ Construct
    \/ NewAuth
    \/ \E l \in Logins, pw \in Passwords : SignIn(l, pw)
    \/ SignOut
    \/ \E u \in AuthInputs : Add(u)
    \/ \E u \in AuthInputs : Delete(u)
    \/ \E l \in Logins : GetByLoginCall(l)

SpecSession == InitAuth /\ [][NextSession]_vars

\* the record at i is the first on disk, in file order, with the login
FirstWithLogin(i, login) ==
    /\ i \in DOMAIN Disk /\ Disk[i].login = login
    /\ \A j \in 1..(i - 1) : Disk[j].login # login

\* C35: get_by_login returns the first record in on-disk order whose login
\* equals the argument, and nothing when none matches; sign_in checks the
\* password against that first record only, so of two records sharing a login
\* only the first can sign in.
C35_FirstLoginMatchOnly ==
    [][/\ \A l \in Logins :
             GetByLoginCall(l) =>
                 /\ (\A i \in DOMAIN Disk : Disk[i].login # l) => item' = None
                 /\ \A i \in DOMAIN Disk :
                        FirstWithLogin(i, l) => item' = Some(FromDict(Disk[i]))
       /\ \A l \in Logins, pw \in Passwords :
             SignIn(l, pw) =>
                 /\ ret' = "True" <=>
                        \E i \in DOMAIN Disk : FirstWithLogin(i, l) /\ Disk[i].password = pw
                 /\ \A i \in DOMAIN Disk :
                        (FirstWithLogin(i, l) /\ ret' = "True") => cur' = Some(FromDict(Disk[i]))]_vars

\* sign_in was refused although its password is the one of the second of two
\* records sharing the login
C35_Witness ==
    /\ op = "sign_in" /\ ret = "False" /\ notice = "wrong_password"
    /\ Len(Disk) = 2 /\ Disk[1].login = Disk[2].login
    /\ Disk[1].password # Disk[2].password
    /\ Passwords = {Disk[1].password, Disk[2].password}

\* C36: a persisted session only ever auto-authenticates the user whose sign_in
\* wrote it: across sign_in, delete and add, a freshly constructed
\* FileAuthService is never authenticated as a user that did not sign in.
C36_SessionAuthenticatesOwner ==
    (op = "auth_init" /\ cur # None /\ owner # None) => cur = owner

\* C37: for one FileAuthService, after its construction and after every
\* sign_in and sign_out: when is_authorized holds, the session file exists and
\* the user id it holds is current_user.id.
C37_SessionMatchesCurrentUser ==
    (auth = "ready" /\ cur # None) =>
        (session # None /\ session = SessionOf(Some(cur[1].id)))

\* a failed sign_in left a user signed in whose sign_in replaced another
\* session file
C37_Witness ==
    /\ op = "sign_in" /\ ret = "False" /\ cur # None /\ cur[1].id = 2
    /\ session = SessionOf(Some(2))

\* C39: add on a readable store always increases the on-disk record count by
\* exactly one and leaves the id and the fields of every record stored before
\* unchanged, whether or not the entity's id collided.
C39_AddAppendsOne ==
    [][\A u \in Inputs :
          Add(u) =>
              /\ Len(Disk') = Len(Disk) + 1
              /\ \A r \in Records(Disk) :
                     Cardinality({i \in DOMAIN Disk' : Disk'[i] = r})
                         = Cardinality({i \in DOMAIN Disk : Disk[i] = r})]_vars

\* an add whose id collided, on a store of one record that is still there
C39_Witness ==
    /\ op = "add" /\ wrote /\ notice = "id_reassigned" /\ Len(Disk) = 2
    /\ item # None /\ item[1].id = 2
    /\ \E i \in DOMAIN Disk : Disk[i].id = 1

====
